---- MODULE Spec2Model ----
(***************************************************************************)
(* embedded-midi: the incremental MIDI byte-stream parser (MidiParser,     *)
(* src/src/parser.rs) and the running-status renderer (MidiOut,            *)
(* src/src/lib.rs), over the message and value types of src/src/midi.rs.   *)
(*                                                                         *)
(* Ten specifications share the module:                                    *)
(*   Spec      one MidiParser fed an arbitrary byte stream;                *)
(*   SpecOut   one MidiOut writing an arbitrary message sequence to a      *)
(*             transport that may fail any byte write;                     *)
(*   SpecLoop  a fresh MidiOut whose accepted bytes are fed, in order, to  *)
(*             a fresh MidiParser;                                         *)
(*   SpecValue one Value14 built from an integer of 0..16383, converted    *)
(*             back and written by a fresh MidiOut;                        *)
(*   SpecTx    one MidiOut writing messages whose fields are built from    *)
(*             raw bytes, the answers of the transport being recorded;     *)
(*   SpecBlock one MidiOut whose byte writes the transport may answer with *)
(*             WouldBlock;                                                 *)
(*   SpecIn    one MidiIn whose transport answers each read with a byte,   *)
(*             WouldBlock or an error;                                     *)
(*   SpecStream one MidiOut writing message after message to one           *)
(*             MidiParser;                                                 *)
(*   SpecWire  one MidiOut, with the last status byte the transport        *)
(*             accepted;                                                   *)
(*   SpecDuplex three MidiParser and one MidiOut, interleaved.             *)
(* Variables a specification does not use keep their initial value.        *)
(***************************************************************************)
EXTENDS Integers, Sequences, FiniteSets, TLC

(***************************************************************************)
(* Bounds of the model.  The program ranges are 0..15 for channels and     *)
(* 0..127 for data bytes; the model draws channels from 0..MaxChannel, the *)
(* data bytes fed to the parser from 0..MaxData and the data fields of the *)
(* messages written from 0..MaxField, each together with the top value 127.*)
(***************************************************************************)
MaxChannel == 1
MaxData == 1
MaxField == 0
\* groups counts the data-byte groups completed under one status byte and
\* saturates at MaxGroups.
MaxGroups == 2
\* SpecLoop writes at most MaxMsgs messages.
MaxMsgs == 1

Channels == 0..MaxChannel
DataBytes == (0..MaxData) \cup {127}
FieldValues == (0..MaxField) \cup {127}

(***************************************************************************)
(* Message and value model (src/src/midi.rs).                              *)
(***************************************************************************)
\* impl From<u8> for Note / Channel / Control / Program / Value7: the byte is
\* wrapped as it is, with no masking and no range check.
FromU8(b) == b

\* impl Into<u8> for Note / Channel / Control / Program / Value7.
IntoU8(v) == v

\* impl From<(u8, u8)> for Value14: Value14(value.0, value.1).
Value14FromPair(a, b) == <<a, b>>

\* impl Into<(u8, u8)> for Value14: (self.0, self.1).
Value14IntoPair(v) == <<v[1], v[2]>>

\* Mutant: the split stores the low seven bits first.
Value14FromU16_LowFirst(u) == <<u % 128, (u % \h4000) \div 128>>

\* impl From<u16> for Value14, u its argument:
\* Value14(((value & 0x3f80) >> 7) as u8, (value & 0x007f) as u8).
Value14FromU16(u) == <<(u % \h4000) \div 128, u % 128>>

\* impl Into<u16> for Value14: (self.0 as u16) * 128 + self.1 as u16.
Value14IntoU16(v) == (v[1] * 128 + v[2]) % \h10000

\* Option::None of parse_byte's result.
None == [type |-> "None"]

NoteOff(c, n, v) == [type |-> "NoteOff", channel |-> c, note |-> n, velocity |-> v]
NoteOn(c, n, v) == [type |-> "NoteOn", channel |-> c, note |-> n, velocity |-> v]
KeyPressure(c, n, v) == [type |-> "KeyPressure", channel |-> c, note |-> n, value |-> v]
ControlChange(c, k, v) == [type |-> "ControlChange", channel |-> c, control |-> k, value |-> v]
ProgramChange(c, p) == [type |-> "ProgramChange", channel |-> c, program |-> p]
ChannelPressure(c, v) == [type |-> "ChannelPressure", channel |-> c, value |-> v]
PitchBendChange(c, v) == [type |-> "PitchBendChange", channel |-> c, value |-> v]
QuarterFrame(v) == [type |-> "QuarterFrame", frame_data |-> v]
SongPositionPointer(v) == [type |-> "SongPositionPointer", pointer |-> v]
SongSelect(v) == [type |-> "SongSelect", value |-> v]
TuneRequest == [type |-> "TuneRequest"]
EndOfExclusive == [type |-> "EndOfExclusive"]
TimingClock == [type |-> "TimingClock"]
Start == [type |-> "Start"]
Continue == [type |-> "Continue"]
Stop == [type |-> "Stop"]
ActiveSensing == [type |-> "ActiveSensing"]
Reset == [type |-> "Reset"]

(***************************************************************************)
(* Parser (src/src/parser.rs).                                             *)
(***************************************************************************)
\* enum MidiParserState, one record shape per variant.
Idle == [tag |-> "Idle"]
NoteOnRecvd(c) == [tag |-> "NoteOnRecvd", channel |-> c]
NoteOnNoteRecvd(c, n) == [tag |-> "NoteOnNoteRecvd", channel |-> c, note |-> n]
NoteOffRecvd(c) == [tag |-> "NoteOffRecvd", channel |-> c]
NoteOffNoteRecvd(c, n) == [tag |-> "NoteOffNoteRecvd", channel |-> c, note |-> n]
KeyPressureRecvd(c) == [tag |-> "KeyPressureRecvd", channel |-> c]
KeyPressureNoteRecvd(c, n) == [tag |-> "KeyPressureNoteRecvd", channel |-> c, note |-> n]
ControlChangeRecvd(c) == [tag |-> "ControlChangeRecvd", channel |-> c]
ControlChangeControlRecvd(c, k) == [tag |-> "ControlChangeControlRecvd", channel |-> c, control |-> k]
ProgramChangeRecvd(c) == [tag |-> "ProgramChangeRecvd", channel |-> c]
ChannelPressureRecvd(c) == [tag |-> "ChannelPressureRecvd", channel |-> c]
PitchBendRecvd(c) == [tag |-> "PitchBendRecvd", channel |-> c]
PitchBendFirstByteRecvd(c, b) == [tag |-> "PitchBendFirstByteRecvd", channel |-> c, byte1 |-> b]
QuarterFrameRecvd == [tag |-> "QuarterFrameRecvd"]
SongPositionRecvd == [tag |-> "SongPositionRecvd"]
SongPositionLsbRecvd(b) == [tag |-> "SongPositionLsbRecvd", lsb |-> b]

\* The pair (new self.state, returned Option<MidiMessage>) of one parse_byte call.
Res(st, m) == [state |-> st, out |-> m]

\* byte & 0x80 == 0x80
is_status_byte(b) == (b \div 128) % 2 = 1

\* byte & 0xf0 == 0xf0
is_system_message(b) == (b \div 16) % 16 = 15

\* Mutant: the channel is the whole status byte, the type nibble not masked off.
split_message_and_channel_NoMask(b) == <<(b \div 16) * 16, FromU8(b)>>

\* (byte & 0xf0, (byte & 0x0f).into())
split_message_and_channel(b) == <<(b \div 16) * 16, FromU8(b % 16)>>

\* The arms 0xf8..0xff of the match on a system byte: self.state is not assigned.
ParseRealtime(st, b) ==
    CASE b = \hF8 -> Res(st, TimingClock)
      [] b = \hF9 -> Res(st, None)
      [] b = \hFA -> Res(st, Start)
      [] b = \hFB -> Res(st, Continue)
      [] b = \hFC -> Res(st, Stop)
      [] b = \hFD -> Res(st, None)
      [] b = \hFE -> Res(st, ActiveSensing)
      [] b = \hFF -> Res(st, Reset)

\* The arms 0xf0..0xf7 and the catch-all arm of the match on a system byte.
ParseSystemCommon(st, b) ==
    CASE b = \hF0 -> Res(Idle, None)
      [] b = \hF1 -> Res(QuarterFrameRecvd, None)
      [] b = \hF2 -> Res(SongPositionRecvd, None)
      [] b = \hF3 -> Res(Idle, None)
      [] b = \hF6 -> Res(Idle, TuneRequest)
      [] b = \hF7 -> Res(Idle, EndOfExclusive)
      [] OTHER -> Res(Idle, None)

\* Mutant: a realtime byte resets the parser.
ParseSystemMessage_RealtimeResets(st, b) ==
    IF b \in \hF8..\hFF THEN Res(Idle, ParseRealtime(st, b).out) ELSE ParseSystemCommon(st, b)

\* Mutant: a realtime byte between the two data bytes of a NoteOn makes the
\* parser await the first data byte again.
ParseSystemMessage_RealtimeRestartsGroup(st, b) ==
    IF b \in \hF8..\hFF
    THEN Res(IF st.tag = "NoteOnNoteRecvd" THEN NoteOnRecvd(st.channel) ELSE st,
             ParseRealtime(st, b).out)
    ELSE ParseSystemCommon(st, b)

\* Mutant: the undefined status bytes 0xf4 and 0xf5 leave the state alone.
ParseSystemMessage_UndefinedKeeps(st, b) ==
    IF b \in \hF8..\hFF THEN ParseRealtime(st, b)
    ELSE IF b \in {\hF4, \hF5} THEN Res(st, None) ELSE ParseSystemCommon(st, b)

\* Mutant: 0xf6 and 0xf7 return their message and leave the state alone.
ParseSystemMessage_TuneRequestKeeps(st, b) ==
    IF b \in \hF8..\hFF THEN ParseRealtime(st, b)
    ELSE IF b \in {\hF6, \hF7} THEN Res(st, ParseSystemCommon(st, b).out)
    ELSE ParseSystemCommon(st, b)

\* Mutant: the start of a system exclusive message, 0xf0, leaves the state alone.
ParseSystemMessage_ExclusiveKeeps(st, b) ==
    IF b \in \hF8..\hFF THEN ParseRealtime(st, b)
    ELSE IF b = \hF0 THEN Res(st, None) ELSE ParseSystemCommon(st, b)

\* match byte { ... } of the is_system_message branch.
ParseSystemMessage(st, b) ==
    IF b \in \hF8..\hFF THEN ParseRealtime(st, b) ELSE ParseSystemCommon(st, b)

\* Mutant: NoteOff is an alias of NoteOn.
ParseChannelStatus_NoteOffAliased(st, b) ==
    LET message == split_message_and_channel(b)[1]
        channel == split_message_and_channel(b)[2]
    IN  CASE message = \h80 -> Res(NoteOnRecvd(channel), None)
          [] message = \h90 -> Res(NoteOnRecvd(channel), None)
          [] message = \hA0 -> Res(KeyPressureRecvd(channel), None)
          [] message = \hB0 -> Res(ControlChangeRecvd(channel), None)
          [] message = \hC0 -> Res(ProgramChangeRecvd(channel), None)
          [] message = \hD0 -> Res(ChannelPressureRecvd(channel), None)
          [] message = \hE0 -> Res(PitchBendRecvd(channel), None)
          [] OTHER -> Res(st, None)

\* The channel voice branch: the status byte selects the awaiting state.
ParseChannelStatus(st, b) ==
    LET message == split_message_and_channel(b)[1]
        channel == split_message_and_channel(b)[2]
    IN  CASE message = \h80 -> Res(NoteOffRecvd(channel), None)
          [] message = \h90 -> Res(NoteOnRecvd(channel), None)
          [] message = \hA0 -> Res(KeyPressureRecvd(channel), None)
          [] message = \hB0 -> Res(ControlChangeRecvd(channel), None)
          [] message = \hC0 -> Res(ProgramChangeRecvd(channel), None)
          [] message = \hD0 -> Res(ChannelPressureRecvd(channel), None)
          [] message = \hE0 -> Res(PitchBendRecvd(channel), None)
          [] OTHER -> Res(st, None)

\* The data byte branch, arms of the channel voice states.
ParseDataChannel(st, b) ==
    CASE st.tag = "NoteOffRecvd" -> Res(NoteOffNoteRecvd(st.channel, FromU8(b)), None)
      [] st.tag = "NoteOffNoteRecvd" ->
            Res(NoteOffRecvd(st.channel), NoteOff(st.channel, st.note, FromU8(b)))
      [] st.tag = "NoteOnRecvd" -> Res(NoteOnNoteRecvd(st.channel, FromU8(b)), None)
      [] st.tag = "NoteOnNoteRecvd" ->
            Res(NoteOnRecvd(st.channel), NoteOn(st.channel, st.note, FromU8(b)))
      [] st.tag = "KeyPressureRecvd" -> Res(KeyPressureNoteRecvd(st.channel, FromU8(b)), None)
      [] st.tag = "KeyPressureNoteRecvd" ->
            Res(KeyPressureRecvd(st.channel), KeyPressure(st.channel, st.note, FromU8(b)))
      [] st.tag = "ControlChangeRecvd" ->
            Res(ControlChangeControlRecvd(st.channel, FromU8(b)), None)
      [] st.tag = "ControlChangeControlRecvd" ->
            Res(ControlChangeRecvd(st.channel), ControlChange(st.channel, st.control, FromU8(b)))
      [] st.tag = "ProgramChangeRecvd" -> Res(st, ProgramChange(st.channel, FromU8(b)))
      [] st.tag = "ChannelPressureRecvd" -> Res(st, ChannelPressure(st.channel, FromU8(b)))
      [] st.tag = "PitchBendRecvd" -> Res(PitchBendFirstByteRecvd(st.channel, b), None)
      [] st.tag = "PitchBendFirstByteRecvd" ->
            Res(PitchBendRecvd(st.channel),
                PitchBendChange(st.channel, Value14FromPair(st.byte1, b)))
      [] OTHER -> Res(st, None)

\* The data byte branch, arms of the system common states and the catch-all arm.
ParseDataSystem(st, b) ==
    CASE st.tag = "SongPositionRecvd" -> Res(SongPositionLsbRecvd(b), None)
      [] st.tag = "SongPositionLsbRecvd" ->
            Res(SongPositionRecvd, SongPositionPointer(Value14FromPair(st.lsb, b)))
      [] st.tag = "QuarterFrameRecvd" -> Res(st, QuarterFrame(FromU8(b)))
      [] OTHER -> Res(st, None)

\* Mutant: a completed NoteOn returns to Idle, so running status is lost.
ParseData_NoRunningStatus(st, b) ==
    IF st.tag = "NoteOnNoteRecvd" THEN Res(Idle, ParseDataChannel(st, b).out)
    ELSE IF st.tag \in {"SongPositionRecvd", "SongPositionLsbRecvd", "QuarterFrameRecvd", "Idle"}
    THEN ParseDataSystem(st, b)
    ELSE ParseDataChannel(st, b)

\* Mutant: a completed SongPositionPointer returns to Idle.
ParseData_NoSystemRunningStatus(st, b) ==
    IF st.tag = "SongPositionLsbRecvd" THEN Res(Idle, ParseDataSystem(st, b).out)
    ELSE IF st.tag \in {"SongPositionRecvd", "QuarterFrameRecvd", "Idle"}
    THEN ParseDataSystem(st, b)
    ELSE ParseDataChannel(st, b)

\* Mutant: a data byte received in Idle is kept as the note of a NoteOn.
ParseData_IdleCollects(st, b) ==
    IF st.tag = "Idle" THEN Res(NoteOnNoteRecvd(0, FromU8(b)), None)
    ELSE IF st.tag \in {"SongPositionRecvd", "SongPositionLsbRecvd", "QuarterFrameRecvd"}
    THEN ParseDataSystem(st, b)
    ELSE ParseDataChannel(st, b)

\* Mutant: the first data byte of a NoteOn returns a NoteOn already.
ParseData_EmitsEarly(st, b) ==
    IF st.tag = "NoteOnRecvd"
    THEN Res(NoteOnNoteRecvd(st.channel, FromU8(b)), NoteOn(st.channel, FromU8(b), 0))
    ELSE IF st.tag \in {"SongPositionRecvd", "SongPositionLsbRecvd", "QuarterFrameRecvd", "Idle"}
    THEN ParseDataSystem(st, b)
    ELSE ParseDataChannel(st, b)

\* The data byte branch: match self.state { ... }.
ParseData(st, b) ==
    IF st.tag \in {"SongPositionRecvd", "SongPositionLsbRecvd", "QuarterFrameRecvd", "Idle"}
    THEN ParseDataSystem(st, b)
    ELSE ParseDataChannel(st, b)

\* Mutant: QuarterFrameRecvd is never left.
parse_byte_Stuck(st, b) ==
    IF st.tag = "QuarterFrameRecvd"
    THEN IF is_status_byte(b) THEN Res(st, None) ELSE ParseData(st, b)
    ELSE IF is_status_byte(b)
    THEN IF is_system_message(b) THEN ParseSystemMessage(st, b) ELSE ParseChannelStatus(st, b)
    ELSE ParseData(st, b)

\* MidiParser::parse_byte.
parse_byte(st, b) ==
    IF is_status_byte(b)
    THEN IF is_system_message(b) THEN ParseSystemMessage(st, b) ELSE ParseChannelStatus(st, b)
    ELSE ParseData(st, b)

(***************************************************************************)
(* Renderer (MidiOut, src/src/lib.rs).  Option<u8> is <<>> for None and    *)
(* <<s>> for Some(s).  The transport accepts the first ok byte writes of a *)
(* call and answers the next one, if the call makes one, with an error;    *)
(* block! repeats a byte write that answers WouldBlock, so only Ok and the *)
(* error end it.                                                           *)
(***************************************************************************)
MaxMessageBytes == 3

Min(a, b) == IF a < b THEN a ELSE b

\* Mutant: the byte writes after the one the transport refused are still made.
Transmit_KeepsWriting(bytes, ok) ==
    [wire |-> IF ok >= Len(bytes) THEN bytes
              ELSE SubSeq(bytes, 1, ok) \o SubSeq(bytes, ok + 2, Len(bytes)),
     done |-> ok >= Len(bytes)]

\* block!(self.tx.write(b))? for each byte of bytes in turn: the bytes the
\* transport accepted, and whether all were.
Transmit(bytes, ok) ==
    [wire |-> SubSeq(bytes, 1, Min(ok, Len(bytes))), done |-> ok >= Len(bytes)]

\* What one write call leaves: self.last_status, the bytes accepted, the Result.
Written(last, t) == [last_status |-> last, wire |-> t.wire, result |-> IF t.done THEN "Ok" ELSE "Err"]

\* Mutant: the status byte is elided whenever the message type matches,
\* whatever the channel.
write_channel_message_IgnoresChannel(last, status_msb, channel, data, ok) ==
    LET status == status_msb + channel
        same == last # <<>> /\ last[1] \div 16 = status \div 16
        t == Transmit((IF ~same THEN <<status>> ELSE <<>>) \o data, ok)
    IN  Written(IF t.done THEN <<status>> ELSE last, t)

\* Mutant: the last status is set as soon as the transport accepted the status
\* byte.
write_channel_message_SetsStatusEarly(last, status_msb, channel, data, ok) ==
    LET status == status_msb + channel
        t == Transmit((IF last # <<status>> THEN <<status>> ELSE <<>>) \o data, ok)
    IN  Written(IF t.done \/ (last # <<status>> /\ ok >= 1) THEN <<status>> ELSE last, t)

\* MidiOut::write_channel_message.
write_channel_message(last, status_msb, channel, data, ok) ==
    LET status == status_msb + channel
        t == Transmit((IF last # <<status>> THEN <<status>> ELSE <<>>) \o data, ok)
    IN  Written(IF t.done THEN <<status>> ELSE last, t)

\* Mutant: a system common message leaves last_status as it is.
WriteSystemCommon_KeepsStatus(last, bytes, ok) ==
    Written(last, Transmit(bytes, ok))

\* The system common arms of write: the byte writes, then self.last_status = None.
WriteSystemCommon(last, bytes, ok) ==
    LET t == Transmit(bytes, ok)
    IN  Written(IF t.done THEN <<>> ELSE last, t)

\* Mutant: a realtime message clears last_status.
WriteRealtime_ClearsStatus(last, b, ok) ==
    LET t == Transmit(<<b>>, ok)
    IN  Written(IF t.done THEN <<>> ELSE last, t)

\* The system realtime arms of write: one byte write, self.last_status untouched.
WriteRealtime(last, b, ok) ==
    Written(last, Transmit(<<b>>, ok))

\* MidiOut::write.
write(last, m, ok) ==
    CASE m.type = "NoteOn" ->
            write_channel_message(last, \h90, IntoU8(m.channel),
                                  <<IntoU8(m.note), IntoU8(m.velocity)>>, ok)
      [] m.type = "NoteOff" ->
            write_channel_message(last, \h80, IntoU8(m.channel),
                                  <<IntoU8(m.note), IntoU8(m.velocity)>>, ok)
      [] m.type = "KeyPressure" ->
            write_channel_message(last, \hA0, IntoU8(m.channel),
                                  <<IntoU8(m.note), IntoU8(m.value)>>, ok)
      [] m.type = "ControlChange" ->
            write_channel_message(last, \hB0, IntoU8(m.channel),
                                  <<IntoU8(m.control), IntoU8(m.value)>>, ok)
      [] m.type = "ProgramChange" ->
            write_channel_message(last, \hC0, IntoU8(m.channel), <<IntoU8(m.program)>>, ok)
      [] m.type = "ChannelPressure" ->
            write_channel_message(last, \hD0, IntoU8(m.channel), <<IntoU8(m.value)>>, ok)
      [] m.type = "PitchBendChange" ->
            write_channel_message(last, \hE0, IntoU8(m.channel),
                                  <<Value14IntoPair(m.value)[1], Value14IntoPair(m.value)[2]>>, ok)
      [] m.type = "QuarterFrame" -> WriteSystemCommon(last, <<\hF1, IntoU8(m.frame_data)>>, ok)
      [] m.type = "SongPositionPointer" ->
            WriteSystemCommon(last, <<\hF2, Value14IntoPair(m.pointer)[1],
                                      Value14IntoPair(m.pointer)[2]>>, ok)
      [] m.type = "SongSelect" -> WriteSystemCommon(last, <<\hF3, IntoU8(m.value)>>, ok)
      [] m.type = "TuneRequest" -> WriteSystemCommon(last, <<\hF6>>, ok)
      [] m.type = "TimingClock" -> WriteRealtime(last, \hF8, ok)
      [] m.type = "Start" -> WriteRealtime(last, \hFA, ok)
      [] m.type = "Continue" -> WriteRealtime(last, \hFB, ok)
      [] m.type = "Stop" -> WriteRealtime(last, \hFC, ok)
      [] m.type = "ActiveSensing" -> WriteRealtime(last, \hFE, ok)
      [] m.type = "Reset" -> WriteRealtime(last, \hFF, ok)

(***************************************************************************)
(* State.                                                                  *)
(***************************************************************************)
VARIABLES
    state,      \* MidiParser.state
    last_status,\* MidiOut.last_status
    byte,       \* the byte of the last parse_byte call (NoByte before the first)
    out,        \* what the last parse_byte call returned
    prev,       \* MidiParser.state before the last parse_byte call
    rs,         \* history: the last non-realtime status byte received, <<>> if none
    pend,       \* history: the data bytes of the current group received since rs
    groups,     \* history: groups completed since rs, saturating at MaxGroups
    mid,        \* history: the parser held a collected data byte when rs arrived
    rtIn,       \* history: the lengths of pend at which a realtime byte arrived
                \*          inside the current group
    sh,         \* a second MidiParser, fed only the non-realtime bytes of the stream
    shOut,      \* what the second parser returned for the last byte it was fed
    msg,        \* the message of the last write call (None before the first)
    res,        \* the Result of the last write call, "Ok" or "Err"
    wire,       \* the bytes the transport accepted during the last write call
    prevLast,   \* MidiOut.last_status before the last write call
    cvBefore,   \* history: the status byte of the last channel voice message
                \*          written with success before the last write call
    between,    \* history: the kinds of message written with success after that
                \*          channel voice message and before the last write call
    link,       \* SpecLoop: the bytes the transport accepted, not yet parsed
    sent,       \* SpecLoop: the write calls made, each with its Result
    rcvd,       \* SpecLoop: the messages the parser returned, in order
    val,        \* SpecValue: the u16 a Value14 is built from
    v14,        \* SpecValue: the Value14 built from val, <<>> before it is built
    back,       \* SpecValue: the u16 v14 converts into, NoValue before
    tx,         \* SpecTx, SpecValue: the number of byte writes the transport
                \*          accepts before it returns an error, as drawn for the
                \*          last write call
    attempt,    \* SpecTx, SpecStream: the write call made before the last one, when it
                \*         returned Err and the last one wrote its channel voice
                \*         message again
    pending,    \* SpecBlock: the message of the write call in progress
    acc,        \* SpecBlock: the byte writes the transport has accepted in
                \*            the write call in progress
    answer,     \* SpecBlock: the answer of the transport to the last byte write
    calls,      \* SpecBlock: the byte writes asked of the transport in the
                \*            last write call, saturating at MaxCalls
    rxAns,      \* SpecIn: the answer of the transport to the last read
    readRes,    \* SpecIn: what the last MidiIn::read call returned
    lag,        \* SpecDuplex: the byte the first parser has received and the
                \*             second has not yet, NoByte if none
    oth,        \* SpecDuplex: a third MidiParser, fed other bytes
    defects,    \* SpecStream: "failed" once a write call returned an error,
                \* "twice" once a second one did, "range" once a message with a
                \* field out of range was written
    onWire      \* SpecWire: the last status byte below 0xF8 the transport
                \*           accepted, <<>> if none

parserObs == <<byte, out, prev, rs, pend, groups, mid, rtIn, sh, shOut>>
outObs == <<msg, res, wire, prevLast, cvBefore, between, onWire>>
loopVars == <<link, sent, rcvd>>
valueVars == <<val, v14, back>>
blockVars == <<pending, acc, answer, calls>>
inVars == <<rxAns, readRes>>
twinVars == <<lag, oth>>
extVars == <<attempt, blockVars, inVars, twinVars, defects>>

vars == <<state, last_status, parserObs, outObs, loopVars, valueVars, tx, extVars>>

\* A value no u8 takes: no byte has been fed yet.
NoByte == \h100

\* The parser is fed the status bytes of the channels drawn and of the top
\* channel, 15.
RxChannels == Channels \cup {15}
ChannelStatusBytes ==
    {m + c : m \in {\h80, \h90, \hA0, \hB0, \hC0, \hD0, \hE0}, c \in RxChannels}
SystemCommonBytes == \hF0..\hF7
RealtimeBytes == \hF8..\hFF
Bytes == DataBytes \cup ChannelStatusBytes \cup SystemCommonBytes \cup RealtimeBytes

\* The number of data bytes the wire format gives the message of a status byte.
DataLen(s) ==
    CASE s \div 16 \in {\h8, \h9, \hA, \hB, \hE} -> 2
      [] s \div 16 \in {\hC, \hD} -> 1
      [] s \in {\hF1, \hF3} -> 1
      [] s = \hF2 -> 2
      [] OTHER -> 0

Need == IF rs = <<>> THEN 0 ELSE DataLen(rs[1])

\* The states that hold a collected data byte.
HoldsData(st) == DOMAIN st # {"tag"} /\ DOMAIN st # {"tag", "channel"}

\* The messages write takes: the data bytes of a two-byte message are drawn
\* as pairs <<d, 127 - d>>.
DataPairs == {<<d, 127 - d>> : d \in FieldValues}
ChannelMessages ==
    {NoteOff(c, d[1], d[2]) : c \in Channels, d \in DataPairs}
    \cup {NoteOn(c, d[1], d[2]) : c \in Channels, d \in DataPairs}
    \cup {KeyPressure(c, d[1], d[2]) : c \in Channels, d \in DataPairs}
    \cup {ControlChange(c, d[1], d[2]) : c \in Channels, d \in DataPairs}
    \cup {ProgramChange(c, d) : c \in Channels, d \in FieldValues}
    \cup {ChannelPressure(c, d) : c \in Channels, d \in FieldValues}
    \cup {PitchBendChange(c, Value14FromPair(d[1], d[2])) : c \in Channels, d \in DataPairs}
CommonMessages ==
    {QuarterFrame(d) : d \in FieldValues}
    \cup {SongPositionPointer(Value14FromPair(d[1], d[2])) : d \in DataPairs}
    \cup {SongSelect(d) : d \in FieldValues}
    \cup {TuneRequest}
RealtimeMessages == {TimingClock, Start, Continue, Stop, ActiveSensing, Reset}
Messages == ChannelMessages \cup CommonMessages \cup RealtimeMessages

\* MidiParser::new: state Idle.
ParserInit ==
    /\ state = Idle
    /\ byte = NoByte
    /\ out = None
    /\ prev = Idle
    /\ rs = <<>>
    /\ pend = <<>>
    /\ groups = 0
    /\ mid = FALSE
    /\ rtIn = {}
    /\ sh = Idle
    /\ shOut = None

\* MidiOut::new: last_status None.
OutInit ==
    /\ last_status = <<>>
    /\ msg = None
    /\ res = "Ok"
    /\ wire = <<>>
    /\ prevLast = <<>>
    /\ cvBefore = <<>>
    /\ between = {}
    /\ onWire = <<>>

LoopInit ==
    /\ link = <<>>
    /\ sent = <<>>
    /\ rcvd = <<>>

\* The history variables after byte b is received.
Observe(b) ==
    IF b \in RealtimeBytes
    THEN /\ rtIn' = rtIn \cup {IF Len(pend) >= Need THEN 0 ELSE Len(pend)}
         /\ UNCHANGED <<rs, pend, groups, mid>>
    ELSE IF b \in ChannelStatusBytes \cup SystemCommonBytes
    THEN /\ rs' = <<b>>
         /\ pend' = <<>>
         /\ groups' = 0
         /\ mid' = HoldsData(state)
         /\ rtIn' = {}
    ELSE /\ pend' = IF Need = 0 THEN <<>>
                    ELSE IF Len(pend) >= Need THEN <<b>> ELSE Append(pend, b)
         /\ groups' = IF Need > 0 /\ Len(pend') = Need
                      THEN Min(groups + 1, MaxGroups) ELSE groups
         /\ rtIn' = IF Len(pend) >= Need THEN {} ELSE rtIn
         /\ UNCHANGED <<rs, mid>>

\* One call parse_byte(b) on the parser; the second parser is called only
\* with the non-realtime bytes.
FeedByte ==
    \E b \in Bytes :
        LET r == parse_byte(state, b)
        IN  /\ state' = r.state
            /\ out' = r.out
            /\ byte' = b
            /\ prev' = state
            /\ Observe(b)
            /\ IF b \in RealtimeBytes
               THEN UNCHANGED <<sh, shOut>>
               ELSE /\ sh' = parse_byte(sh, b).state
                    /\ shOut' = parse_byte(sh, b).out
            /\ UNCHANGED <<last_status, outObs, loopVars, valueVars, tx, extVars>>

ChannelTypes == {"NoteOff", "NoteOn", "KeyPressure", "ControlChange", "ProgramChange",
                 "ChannelPressure", "PitchBendChange"}
CommonTypes == {"QuarterFrame", "SongPositionPointer", "SongSelect", "TuneRequest"}
RealtimeTypes == {"TimingClock", "Start", "Continue", "Stop", "ActiveSensing", "Reset"}

\* The message types that carry data bytes.
DataTypes == {"NoteOff", "NoteOn", "KeyPressure", "ControlChange", "ProgramChange",
              "ChannelPressure", "PitchBendChange", "QuarterFrame",
              "SongPositionPointer", "SongSelect"}

\* The history of successful writes, the last write call included.
CvNow ==
    IF res = "Ok" /\ msg.type \in ChannelTypes THEN last_status ELSE cvBefore
BetweenNow ==
    IF res # "Ok" THEN between
    ELSE IF msg.type \in ChannelTypes THEN {}
    ELSE IF msg.type \in CommonTypes THEN between \cup {"common"}
    ELSE IF msg.type \in RealtimeTypes THEN between \cup {"realtime"}
    ELSE between

\* One call write(&m) on the renderer, the transport accepting ok byte writes.
Write ==
    \E m \in Messages, ok \in 0..MaxMessageBytes :
        LET w == write(last_status, m, ok)
        IN  /\ last_status' = w.last_status
            /\ wire' = w.wire
            /\ res' = w.result
            /\ msg' = m
            /\ prevLast' = last_status
            /\ cvBefore' = CvNow
            /\ between' = BetweenNow
            /\ UNCHANGED <<state, parserObs, loopVars, valueVars, tx, extVars, onWire>>

\* SpecLoop: one call write(&m), the accepted bytes queued for the parser.
LoopWrite ==
    \E m \in Messages, ok \in 0..MaxMessageBytes :
        LET w == write(last_status, m, ok)
        IN  /\ Len(sent) < MaxMsgs
            /\ last_status' = w.last_status
            /\ link' = link \o w.wire
            /\ sent' = Append(sent, [msg |-> m, result |-> w.result])
            /\ UNCHANGED <<state, rcvd, parserObs, outObs, valueVars, tx, extVars>>

\* SpecLoop: one call parse_byte on the next byte of the link.
LoopDeliver ==
    LET r == parse_byte(state, Head(link))
    IN  /\ link # <<>>
        /\ state' = r.state
        /\ rcvd' = IF r.out = None THEN rcvd ELSE Append(rcvd, r.out)
        /\ link' = Tail(link)
        /\ UNCHANGED <<last_status, sent, parserObs, outObs, valueVars, tx, extVars>>

\* A value no u16 takes: v14 has not been converted yet.
NoValue == \h10000

ValueInit ==
    /\ val = 0
    /\ v14 = <<>>
    /\ back = NoValue

\* The last write call did not write again the message of a failed one.
NoAttempt == [msg |-> None, before |-> <<>>]

\* No read call has returned yet.
NoRead == [result |-> "None", event |-> None]

ExtInit ==
    /\ attempt = NoAttempt
    /\ pending = None /\ acc = 0 /\ answer = "None" /\ calls = 0
    /\ rxAns = NoByte /\ readRes = NoRead
    /\ lag = NoByte /\ oth = Idle
    /\ defects = {}

Init == ParserInit /\ OutInit /\ LoopInit /\ ValueInit /\ tx = 0 /\ ExtInit

Next == FeedByte

Spec == Init /\ [][Next]_vars

NextOut == Write

SpecOut == Init /\ [][NextOut]_vars

NextLoop == LoopWrite \/ LoopDeliver

SpecLoop == Init /\ [][NextLoop]_vars

(***************************************************************************)
(* SpecValue: the integer conversions of Value14, for every integer of     *)
(* 0..16383, and the bytes a new renderer writes for the value built.      *)
(***************************************************************************)
Values14 == 0..\h3FFF

InitValue ==
    /\ ParserInit /\ OutInit /\ LoopInit
    /\ val \in Values14
    /\ v14 = <<>>
    /\ back = NoValue
    /\ tx = 0
    /\ ExtInit

\* let value: Value14 = val.into()
Split ==
    /\ v14 = <<>>
    /\ v14' = Value14FromU16(val)
    /\ UNCHANGED <<state, last_status, parserObs, outObs, loopVars, val, back, tx, extVars>>

\* let back: u16 = value.into()
Combine ==
    /\ v14 # <<>> /\ back = NoValue
    /\ back' = Value14IntoU16(v14)
    /\ UNCHANGED <<state, last_status, parserObs, outObs, loopVars, val, v14, tx, extVars>>

\* The messages that carry the Value14 built.
ValueMessages == {PitchBendChange(c, v14) : c \in Channels} \cup {SongPositionPointer(v14)}

\* One call write(&m) of a new renderer, m carrying the Value14 built.
WriteValue ==
    \E m \in ValueMessages, ok \in 0..MaxMessageBytes :
        LET w == write(last_status, m, ok)
        IN  /\ v14 # <<>> /\ msg = None
            /\ last_status' = w.last_status
            /\ wire' = w.wire
            /\ res' = w.result
            /\ msg' = m
            /\ prevLast' = last_status
            /\ tx' = ok
            /\ UNCHANGED <<state, parserObs, loopVars, valueVars, cvBefore, between, onWire, extVars>>

NextValue == Split \/ Combine \/ WriteValue

SpecValue == InitValue /\ [][NextValue]_vars

(***************************************************************************)
(* SpecTx: the renderer writing messages whose fields are built from raw   *)
(* bytes with From<u8>, in and out of the MIDI ranges.  The raw channels   *)
(* stay low enough for status_msb + channel not to overflow a u8.          *)
(***************************************************************************)
RawChannels == {15, 16}
RawData == {0, 127, 128, 255}
RawPairs == {<<d, 127 - (d % 128)>> : d \in RawData}


\* The message of type k built from the raw channel c and the raw data d.
TxMessage(k, c, d) ==
    CASE k = "NoteOff" -> NoteOff(FromU8(c), FromU8(d[1]), FromU8(d[2]))
      [] k = "NoteOn" -> NoteOn(FromU8(c), FromU8(d[1]), FromU8(d[2]))
      [] k = "KeyPressure" -> KeyPressure(FromU8(c), FromU8(d[1]), FromU8(d[2]))
      [] k = "ControlChange" -> ControlChange(FromU8(c), FromU8(d[1]), FromU8(d[2]))
      [] k = "ProgramChange" -> ProgramChange(FromU8(c), FromU8(d[1]))
      [] k = "ChannelPressure" -> ChannelPressure(FromU8(c), FromU8(d[1]))
      [] k = "PitchBendChange" -> PitchBendChange(FromU8(c), Value14FromPair(d[1], d[2]))
      [] k = "QuarterFrame" -> QuarterFrame(FromU8(d[1]))
      [] k = "SongPositionPointer" -> SongPositionPointer(Value14FromPair(d[1], d[2]))
      [] k = "SongSelect" -> SongSelect(FromU8(d[1]))
      [] k = "TuneRequest" -> TuneRequest
      [] k = "TimingClock" -> TimingClock
      [] k = "Start" -> Start
      [] k = "Continue" -> Continue
      [] k = "Stop" -> Stop
      [] k = "ActiveSensing" -> ActiveSensing
      [] k = "Reset" -> Reset

\* Equality of messages, compared field by field only when of one type.
SameMessage(a, b) == a.type = b.type /\ a = b

\* One call write(&m) on the renderer, the transport accepting ok byte writes
\* and returning an error at the next one.
WriteTx ==
    \E k \in ChannelTypes \cup CommonTypes \cup RealtimeTypes :
    \E c \in IF k \in ChannelTypes THEN RawChannels ELSE {0},
       d \in IF k \in DataTypes THEN RawPairs ELSE {<<0, 0>>},
       ok \in 0..MaxMessageBytes :
        LET m == TxMessage(k, c, d)
            w == write(last_status, m, ok)
        IN  /\ last_status' = w.last_status
            /\ wire' = w.wire
            /\ res' = w.result
            /\ msg' = m
            /\ prevLast' = last_status
            /\ tx' = ok
            /\ attempt' = IF msg.type \in ChannelTypes /\ res = "Err" /\ SameMessage(m, msg)
                          THEN [msg |-> msg, before |-> prevLast]
                          ELSE NoAttempt
            /\ UNCHANGED <<state, parserObs, loopVars, valueVars, cvBefore, between, onWire,
                           blockVars, inVars, twinVars, defects>>

NextTx == WriteTx

SpecTx == Init /\ [][NextTx]_vars

(***************************************************************************)
(* SpecBlock: one write call byte write by byte write.  Every byte write   *)
(* is block!(self.tx.write(b))?, and the transport answers each call with  *)
(* Ok, with WouldBlock or with an error.                                   *)
(***************************************************************************)
\* calls counts the byte writes asked of the transport in one write call and
\* saturates at MaxCalls.
MaxCalls == 5

TransportAnswers == {"Ok", "WouldBlock", "Err"}

\* Mutant: WouldBlock ends the loop and is returned as the error.
block_ReturnsWouldBlock(a) == IF a = "WouldBlock" THEN "Err" ELSE a

\* nb::block!: loop { match e { Err(WouldBlock) => {}, Err(Other(e)) => break
\* Err(e), Ok(x) => break Ok(x) } }: what the loop does on the answer a.
block(a) == IF a = "WouldBlock" THEN "Retry" ELSE a

\* The caller enters write(&m).
BlockBegin ==
    \E m \in Messages :
        /\ pending.type = "None"
        /\ pending' = m
        /\ acc' = 0
        /\ calls' = 0
        /\ answer' = "None"
        /\ UNCHANGED <<state, last_status, parserObs, outObs, loopVars, valueVars, tx,
                       attempt, inVars, twinVars, defects>>

\* One self.tx.write(b) of the write call in progress, b the next byte of the
\* message: on WouldBlock the loop of block! asks again, on an error `?`
\* returns it, on Ok the call goes on to its next byte, or sets the last
\* status and returns Ok(()) after its last byte.
BlockTx ==
    \E a \in TransportAnswers :
        LET full == write(last_status, pending, MaxMessageBytes).wire
            step == block(a)
            w == write(last_status, pending, IF step = "Ok" THEN MaxMessageBytes ELSE acc)
        IN  /\ pending.type # "None"
            /\ answer' = a
            /\ calls' = Min(calls + 1, MaxCalls)
            /\ IF step = "Retry"
               THEN UNCHANGED <<pending, acc, last_status, res>>
               ELSE IF step = "Ok" /\ acc + 1 < Len(full)
               THEN acc' = acc + 1 /\ UNCHANGED <<pending, last_status, res>>
               ELSE /\ pending' = None
                    /\ acc' = 0
                    /\ last_status' = w.last_status
                    /\ res' = w.result
            /\ UNCHANGED <<state, parserObs, msg, wire, prevLast, cvBefore, between, onWire,
                           loopVars, valueVars, tx, attempt, inVars, twinVars, defects>>

NextBlock == BlockBegin \/ BlockTx

SpecBlock == Init /\ [][NextBlock]_vars

(***************************************************************************)
(* SpecIn: calls of MidiIn::read.  The transport answers each read with a  *)
(* byte, with WouldBlock or with an error; a second parser is fed the      *)
(* bytes the transport returned.                                           *)
(***************************************************************************)
\* The answers of the transport that are not bytes.
RxWouldBlock == \h101
RxErr == \h102

\* Mutant: the byte is passed to parse_byte twice.
read_ParsesTwice(st, a) ==
    IF a = RxWouldBlock THEN [state |-> st, result |-> "WouldBlock", event |-> None]
    ELSE IF a = RxErr THEN [state |-> st, result |-> "Err", event |-> None]
    ELSE LET r == parse_byte(parse_byte(st, a).state, a)
         IN  [state |-> r.state,
              result |-> IF r.out # None THEN "Ok" ELSE "WouldBlock",
              event |-> r.out]

\* Mutant: a byte that completes no message leaves the parser state.
read_KeepsStateOnNone(st, a) ==
    IF a = RxWouldBlock THEN [state |-> st, result |-> "WouldBlock", event |-> None]
    ELSE IF a = RxErr THEN [state |-> st, result |-> "Err", event |-> None]
    ELSE LET r == parse_byte(st, a)
         IN  [state |-> IF r.out # None THEN r.state ELSE st,
              result |-> IF r.out # None THEN "Ok" ELSE "WouldBlock",
              event |-> r.out]

\* MidiIn::read with the parser in state st and the transport answering a.
read(st, a) ==
    IF a = RxWouldBlock THEN [state |-> st, result |-> "WouldBlock", event |-> None]
    ELSE IF a = RxErr THEN [state |-> st, result |-> "Err", event |-> None]
    ELSE LET r == parse_byte(st, a)
         IN  [state |-> r.state,
              result |-> IF r.out # None THEN "Ok" ELSE "WouldBlock",
              event |-> r.out]

\* One call read().
Read ==
    \E a \in Bytes \cup {RxWouldBlock, RxErr} :
        LET r == read(state, a)
            p == parse_byte(sh, a)
        IN  /\ state' = r.state
            /\ readRes' = [result |-> r.result, event |-> r.event]
            /\ rxAns' = a
            /\ prev' = state
            /\ sh' = IF a \in Bytes THEN p.state ELSE sh
            /\ shOut' = IF a \in Bytes THEN p.out ELSE None
            /\ UNCHANGED <<last_status, byte, out, rs, pend, groups, mid, rtIn, outObs,
                           loopVars, valueVars, tx, attempt, blockVars, twinVars, defects>>

NextIn == Read

SpecIn == Init /\ [][NextIn]_vars

(***************************************************************************)
(* SpecStream: one renderer writes message after message to a link and one *)
(* parser receives the bytes.  A message is written once the bytes of the  *)
(* one before have been received, so rcvd holds what the parser returned   *)
(* for the bytes of the last write call, and also for the bytes of the     *)
(* failed call before it when the last call wrote its channel voice        *)
(* message again and returned Ok.  A failed write call leaves last_status as it was, so    *)
(* that is the last status before the failed call.  SongSelect is not      *)
(* written.                                                                *)
(***************************************************************************)
\* Two channels and three pairs of data bytes, the last ones out of range.
StreamChannels == {0, 15, 16}
StreamPairs == {<<0, 127>>, <<127, 0>>, <<128, 127>>}
StreamTypes == (ChannelTypes \cup CommonTypes \cup RealtimeTypes) \ {"SongSelect"}

\* Every field of the message m is in the range of its type.
InRange(m) ==
    \A f \in DOMAIN m :
        CASE f = "type" -> TRUE
          [] f = "channel" -> m[f] <= 15
          [] f = "pointer" \/ (f = "value" /\ m.type = "PitchBendChange") ->
                m[f][1] <= 127 /\ m[f][2] <= 127
          [] OTHER -> m[f] <= 127

\* One call write(&m) on the renderer, the transport accepting every byte
\* write or the first one only.
StreamWrite ==
    \E k \in StreamTypes :
    \E c \in IF k \in ChannelTypes THEN StreamChannels ELSE {0},
       d \in IF k \in DataTypes THEN StreamPairs ELSE {<<0, 0>>},
       ok \in {1, MaxMessageBytes} :
        LET m == TxMessage(k, c, d)
            w == write(last_status, m, ok)
        IN  /\ link = <<>>
            /\ last_status' = w.last_status
            /\ link' = w.wire
            /\ res' = w.result
            /\ msg' = m
            /\ attempt' = IF /\ msg.type \in ChannelTypes /\ res = "Err" /\ SameMessage(m, msg)
                             /\ w.result = "Ok"
                          THEN [msg |-> msg, before |-> last_status]
                          ELSE NoAttempt
            /\ rcvd' = IF attempt'.msg.type # "None" THEN rcvd ELSE <<>>
            /\ defects' = defects \cup (IF w.result = "Ok" THEN {} ELSE {"failed"})
                                  \cup (IF w.result = "Err" /\ "failed" \in defects
                                        THEN {"twice"} ELSE {})
                                  \cup (IF InRange(m) THEN {} ELSE {"range"})
            /\ UNCHANGED <<state, sent, parserObs, wire, prevLast, cvBefore, between, onWire,
                           valueVars, tx, blockVars, inVars, twinVars>>

\* One call parse_byte on the next byte of the link.
StreamDeliver ==
    LET r == parse_byte(state, Head(link))
    IN  /\ link # <<>>
        /\ state' = r.state
        /\ rcvd' = IF r.out = None THEN rcvd ELSE Append(rcvd, r.out)
        /\ link' = Tail(link)
        /\ UNCHANGED <<last_status, sent, parserObs, outObs, valueVars, tx, extVars>>

NextStream == StreamWrite \/ StreamDeliver

SpecStream == Init /\ [][NextStream]_vars

(***************************************************************************)
(* SpecWire: write calls on one renderer, with the last status byte below  *)
(* 0xF8 that the transport accepted.  Every field of the messages is in    *)
(* range, so the status bytes are the bytes of 0x80 and above.             *)
(***************************************************************************)
\* The status byte of a write call is the first byte it writes.
StatusOnWire(w, old) ==
    IF w # <<>> /\ w[1] \in \h80..\hF7 THEN <<w[1]>> ELSE old

\* One call write(&m) on the renderer, the transport accepting ok byte writes.
WireWrite ==
    \E m \in Messages, ok \in 0..MaxMessageBytes :
        LET w == write(last_status, m, ok)
        IN  /\ last_status' = w.last_status
            /\ wire' = w.wire
            /\ res' = w.result
            /\ msg' = m
            /\ prevLast' = last_status
            /\ onWire' = StatusOnWire(w.wire, onWire)
            /\ UNCHANGED <<state, parserObs, cvBefore, between, loopVars, valueVars, tx, extVars>>

NextWire == WireWrite

SpecWire == Init /\ [][NextWire]_vars

(***************************************************************************)
(* SpecDuplex: a full-duplex link and more.  Two MidiParser are fed the    *)
(* same bytes, the second one byte behind the first, a third MidiParser is *)
(* fed other bytes, and a MidiOut writes messages, in any interleaving.    *)
(***************************************************************************)
DuplexBytes == {\h90, \hC1, \hF2, \hF6, \hF8, 0, 127}
OtherBytes == {\h80, 0}
DuplexMessages == {NoteOn(0, 0, 127), TuneRequest, TimingClock}

\* One call parse_byte(b) on the first parser.
DuplexFeed ==
    \E b \in DuplexBytes :
        LET r == parse_byte(state, b)
        IN  /\ lag = NoByte
            /\ state' = r.state
            /\ out' = r.out
            /\ byte' = b
            /\ lag' = b
            /\ UNCHANGED <<last_status, prev, rs, pend, groups, mid, rtIn, sh, shOut, outObs,
                           loopVars, valueVars, tx, attempt, blockVars, inVars, oth, defects>>

\* Mutant: the second parser works on the state of the first.
DuplexFeedSecond_SharedState ==
    LET r == parse_byte(state, lag)
    IN  /\ lag # NoByte
        /\ sh' = r.state
        /\ shOut' = r.out
        /\ lag' = NoByte
        /\ UNCHANGED <<state, last_status, byte, out, prev, rs, pend, groups, mid, rtIn, outObs,
                       loopVars, valueVars, tx, attempt, blockVars, inVars, oth, defects>>

\* One call parse_byte on the second parser, with the byte the first received.
DuplexFeedSecond ==
    LET r == parse_byte(sh, lag)
    IN  /\ lag # NoByte
        /\ sh' = r.state
        /\ shOut' = r.out
        /\ lag' = NoByte
        /\ UNCHANGED <<state, last_status, byte, out, prev, rs, pend, groups, mid, rtIn, outObs,
                       loopVars, valueVars, tx, attempt, blockVars, inVars, oth, defects>>

\* One call parse_byte(b) on the third parser.
DuplexFeedOther ==
    \E b \in OtherBytes :
        /\ oth' = parse_byte(oth, b).state
        /\ UNCHANGED <<state, last_status, parserObs, outObs, loopVars, valueVars, tx,
                       attempt, blockVars, inVars, lag, defects>>

\* Mutant: a write call resets the first parser.
DuplexWrite_ResetsParser ==
    \E m \in DuplexMessages, ok \in 0..MaxMessageBytes :
        LET w == write(last_status, m, ok)
        IN  /\ last_status' = w.last_status
            /\ wire' = w.wire
            /\ res' = w.result
            /\ msg' = m
            /\ prevLast' = last_status
            /\ tx' = ok
            /\ state' = Idle
            /\ UNCHANGED <<parserObs, cvBefore, between, onWire, loopVars, valueVars,
                           attempt, blockVars, inVars, twinVars, defects>>

\* One call write(&m) on the renderer, the transport accepting ok byte writes.
DuplexWrite ==
    \E m \in DuplexMessages, ok \in 0..MaxMessageBytes :
        LET w == write(last_status, m, ok)
        IN  /\ last_status' = w.last_status
            /\ wire' = w.wire
            /\ res' = w.result
            /\ msg' = m
            /\ prevLast' = last_status
            /\ tx' = ok
            /\ UNCHANGED <<state, parserObs, cvBefore, between, onWire, loopVars, valueVars,
                           attempt, blockVars, inVars, twinVars, defects>>

NextDuplex == DuplexFeed \/ DuplexFeedSecond \/ DuplexFeedOther \/ DuplexWrite

SpecDuplex == Init /\ [][NextDuplex]_vars

(***************************************************************************)
(* What the claims expect, stated from the wire format and not from the    *)
(* parser: the message of a realtime byte, and the message of a status     *)
(* byte s with the data bytes d.                                           *)
(***************************************************************************)
RealtimeMessage(b) ==
    CASE b = \hF8 -> TimingClock
      [] b = \hFA -> Start
      [] b = \hFB -> Continue
      [] b = \hFC -> Stop
      [] b = \hFE -> ActiveSensing
      [] b = \hFF -> Reset
      [] OTHER -> None

ExpectedMessage(s, d) ==
    CASE s \div 16 = \h8 -> NoteOff(s % 16, d[1], d[2])
      [] s \div 16 = \h9 -> NoteOn(s % 16, d[1], d[2])
      [] s \div 16 = \hA -> KeyPressure(s % 16, d[1], d[2])
      [] s \div 16 = \hB -> ControlChange(s % 16, d[1], d[2])
      [] s \div 16 = \hC -> ProgramChange(s % 16, d[1])
      [] s \div 16 = \hD -> ChannelPressure(s % 16, d[1])
      [] s \div 16 = \hE -> PitchBendChange(s % 16, <<d[1], d[2]>>)
      [] s = \hF1 -> QuarterFrame(d[1])
      [] s = \hF2 -> SongPositionPointer(<<d[1], d[2]>>)
      [] s = \hF3 -> SongSelect(d[1])

\* The last call received a data byte / the data byte completing a group.
DataCall == byte \in DataBytes
GroupDone == DataCall /\ Need > 0 /\ Len(pend) = Need
RunningChannel == rs # <<>> /\ rs[1] \in ChannelStatusBytes

\* C1: a realtime byte 0xF8..0xFF leaves the parser state exactly as it was
\* and returns TimingClock, Start, Continue, Stop, ActiveSensing or Reset for
\* 0xF8, 0xFA, 0xFB, 0xFC, 0xFE, 0xFF and nothing for 0xF9 and 0xFD.
C1_RealtimeLeavesState ==
    byte \in RealtimeBytes => state = prev /\ out = RealtimeMessage(byte)

\* A realtime byte arrived between the two data bytes of a NoteOn.
C1_Witness ==
    byte = \hF8 /\ prev.tag = "NoteOnNoteRecvd" /\ state = prev /\ out = TimingClock

\* C2: the parser fed the stream with realtime bytes inserted returns, at every
\* non-realtime byte, what the parser fed the stream without them returns, and
\* at every realtime byte that byte's own message.
C2_RealtimeTransparent ==
    /\ byte \in RealtimeBytes => out = RealtimeMessage(byte)
    /\ byte \in Bytes \ RealtimeBytes => out = shOut

\* A NoteOn completed although realtime bytes arrived after its status byte and
\* between its two data bytes.
C2_Witness ==
    /\ GroupDone /\ rtIn = {0, 1}
    /\ out.type = "NoteOn" /\ out = shOut

\* C7: whatever the parser held before, a channel voice status byte returns
\* nothing, the first of two data bytes after it returns nothing, and the last
\* data byte returns the message of that status byte with those data bytes.
C7_Resynchronise ==
    /\ byte \in ChannelStatusBytes => out = None
    /\ DataCall /\ RunningChannel /\ groups = 0 /\ rtIn = {} => out = None
    /\ GroupDone /\ RunningChannel /\ groups = 1 /\ rtIn = {}
          => out = ExpectedMessage(rs[1], pend)

\* A ControlChange decoded after its status byte cut a message short.
C7_Witness ==
    /\ GroupDone /\ mid /\ groups = 1 /\ rtIn = {}
    /\ out.type = "ControlChange" /\ out.channel = 1 /\ out.value = 127

\* C8: a non-realtime status byte leaves the parser as it leaves a new parser,
\* holding no data byte; and a message with data bytes carries only the data
\* bytes received since the last non-realtime status byte, with the type and
\* channel of that status byte.
C8_InterruptDiscards ==
    /\ byte \in ChannelStatusBytes \cup SystemCommonBytes
          => /\ state = parse_byte(Idle, byte).state
             /\ ~HoldsData(state)
    /\ out.type \in DataTypes
          => /\ GroupDone
             /\ out = ExpectedMessage(rs[1], pend)

\* A NoteOff decoded after its status byte interrupted another message that
\* had collected a data byte.
C8_Witness ==
    /\ GroupDone /\ mid /\ groups = 1
    /\ out.type = "NoteOff"

\* C9: under a channel voice status byte, every complete data group after the
\* first returns one more message of that status byte's type and channel with
\* the group's data, and an incomplete group returns nothing.
C9_RunningStatus ==
    /\ GroupDone /\ RunningChannel /\ groups >= 2 => out = ExpectedMessage(rs[1], pend)
    /\ DataCall /\ RunningChannel /\ ~GroupDone => out = None

\* A NoteOn repeated without its status byte.
C9_Witness ==
    /\ GroupDone /\ RunningChannel /\ groups = MaxGroups
    /\ out.type = "NoteOn"

\* C10: after 0xF1 every data byte returns a QuarterFrame, after 0xF2 every
\* second data byte returns a SongPositionPointer, the first time and on every
\* repeat without a status byte.
C10_SystemRunningStatus ==
    /\ DataCall /\ rs = <<\hF1>> => out = QuarterFrame(byte)
    /\ GroupDone /\ rs = <<\hF2>> => out = SongPositionPointer(<<pend[1], pend[2]>>)
    /\ DataCall /\ rs = <<\hF2>> /\ ~GroupDone => out = None

\* A SongPositionPointer repeated without its status byte.
C10_Witness ==
    /\ GroupDone /\ rs = <<\hF2>> /\ groups = MaxGroups
    /\ out.type = "SongPositionPointer"

(***************************************************************************)
(* What the claims expect of the renderer, stated from the wire format:    *)
(* the status byte and the data bytes of a message.                        *)
(***************************************************************************)
StatusOf(m) ==
    CASE m.type = "NoteOff" -> \h80 + m.channel
      [] m.type = "NoteOn" -> \h90 + m.channel
      [] m.type = "KeyPressure" -> \hA0 + m.channel
      [] m.type = "ControlChange" -> \hB0 + m.channel
      [] m.type = "ProgramChange" -> \hC0 + m.channel
      [] m.type = "ChannelPressure" -> \hD0 + m.channel
      [] m.type = "PitchBendChange" -> \hE0 + m.channel

DataOf(m) ==
    CASE m.type \in {"NoteOff", "NoteOn"} -> <<m.note, m.velocity>>
      [] m.type = "KeyPressure" -> <<m.note, m.value>>
      [] m.type = "ControlChange" -> <<m.control, m.value>>
      [] m.type = "ProgramChange" -> <<m.program>>
      [] m.type = "ChannelPressure" -> <<m.value>>
      [] m.type = "PitchBendChange" -> <<m.value[1], m.value[2]>>

\* The last write call wrote a channel voice message and returned Ok.
ChannelWritten == msg.type \in ChannelTypes /\ res = "Ok"

\* C3: a message written by a new renderer and parsed by a new parser comes
\* back as exactly that one message.
C3_RoundTrip ==
    Len(sent) = 1 /\ sent[1].result = "Ok" /\ link = <<>> => rcvd = <<sent[1].msg>>

\* C4: a channel voice message is written without its status byte exactly when
\* that status byte is the recorded last status, its data bytes follow, and
\* its status byte becomes the last status; so the message after one of the
\* same type and channel has no status byte, and one after another type or
\* channel, or the first one, has it.
C4_RunningStatusElision ==
    ChannelWritten =>
        /\ wire = (IF prevLast = <<StatusOf(msg)>> THEN <<>> ELSE <<StatusOf(msg)>>)
                  \o DataOf(msg)
        /\ last_status = <<StatusOf(msg)>>
        /\ between = {} /\ cvBefore = <<StatusOf(msg)>> => wire = DataOf(msg)
        /\ cvBefore # <<StatusOf(msg)>> => wire = <<StatusOf(msg)>> \o DataOf(msg)

\* The second of two NoteOn on channel 1 was written as its two data bytes.
C4_Witness ==
    /\ ChannelWritten /\ msg.type = "NoteOn" /\ msg.channel = 1
    /\ cvBefore = <<\h91>> /\ between = {} /\ wire = <<msg.note, msg.velocity>>

\* C5: a system common message written with success leaves no last status, and
\* the next channel voice message carries its status byte, also when it has
\* the type and channel of the channel voice message written before.
C5_CommonClearsStatus ==
    /\ msg.type \in CommonTypes /\ res = "Ok" => last_status = <<>>
    /\ ChannelWritten /\ "common" \in between => wire = <<StatusOf(msg)>> \o DataOf(msg)
    /\ msg.type \in ChannelTypes /\ "common" \in between /\ wire # <<>>
          => Head(wire) = StatusOf(msg)

\* The same channel voice status before and after a system common message.
C5_Witness ==
    /\ ChannelWritten /\ "common" \in between /\ cvBefore = <<StatusOf(msg)>>
    /\ Head(wire) = StatusOf(msg)

C11_SongSelectDecoded ==
    /\ byte = \hF3 => out = None /\ state # Idle
    /\ GroupDone /\ rs = <<\hF3>> /\ groups = 1 /\ rtIn = {}
          => out = ExpectedMessage(rs[1], pend)

\* C12: in every parser state 0xF6 returns TuneRequest and 0xF7 returns
\* EndOfExclusive at the call that receives it and leaves the parser Idle; the
\* parser stays Idle until the next status byte that starts a message, and the
\* data bytes received until then return nothing, also the one that would have
\* completed the message 0xF6 or 0xF7 cut short.
C12_TuneRequestEndOfExclusive ==
    /\ byte = \hF6 => out = TuneRequest /\ state = Idle
    /\ byte = \hF7 => out = EndOfExclusive /\ state = Idle
    /\ rs # <<>> /\ rs[1] \in {\hF6, \hF7}
          => /\ state = Idle
             /\ DataCall => out = None

\* 0xF6 arrived after the first data byte of a message, and the data byte that
\* would have completed that message returned nothing.
C12_Witness ==
    /\ DataCall /\ rs = <<\hF6>> /\ mid /\ prev = Idle
    /\ out = None /\ state = Idle

\* C13: in every parser state each of 0xF0, 0xF4 and 0xF5 returns nothing and
\* leaves the parser Idle; the parser stays Idle until the next status byte
\* that starts a message, and the data bytes received until then return nothing.
C13_UndefinedResets ==
    /\ byte \in {\hF0, \hF4, \hF5} => out = None /\ state = Idle
    /\ rs # <<>> /\ rs[1] \in {\hF0, \hF4, \hF5}
          => /\ state = Idle
             /\ DataCall => out = None

\* 0xF0 arrived after the first data byte of a message, and the data byte that
\* followed returned nothing.
C13_Witness ==
    /\ DataCall /\ rs = <<\hF0>> /\ mid /\ prev = Idle
    /\ out = None /\ state = Idle

\* C14: a new parser is Idle; a data byte received in Idle returns nothing and
\* leaves the parser Idle; so the data bytes a new parser receives before the
\* first status byte that starts a message return nothing.
C14_IdleDiscardsData ==
    /\ byte = NoByte => state = Idle
    /\ DataCall /\ prev = Idle => out = None /\ state = Idle
    /\ DataCall /\ rs = <<>> => out = None /\ state = Idle

\* A data byte fed to a parser that has received no status byte starting a
\* message.
C14_Witness ==
    /\ DataCall /\ rs = <<>> /\ prev = Idle
    /\ out = None /\ state = Idle

\* C15: the 14-bit value of a PitchBendChange or SongPositionPointer the parser
\* returns for the data bytes d1 then d2, converted to an integer, is
\* d2 * 128 + d1: the first byte on the wire is the low half.
C15_LsbFirstOnReceive ==
    /\ out.type = "PitchBendChange"
          => GroupDone /\ Value14IntoU16(out.value) = pend[2] * 128 + pend[1]
    /\ out.type = "SongPositionPointer"
          => GroupDone /\ Value14IntoU16(out.pointer) = pend[2] * 128 + pend[1]

\* C16: for every integer v of 0..16383, a PitchBendChange or
\* SongPositionPointer carrying the Value14 built from v is written, after its
\* status byte if any, as the byte v mod 128 and then the byte v div 128.
C16_LsbFirstOnSend ==
    v14 # <<>> /\ msg.type \in {"PitchBendChange", "SongPositionPointer"} /\ res = "Ok"
        => SubSeq(wire, Len(wire) - 1, Len(wire)) = <<val % 128, val \div 128>>

\* C17: for every integer v of 0..16383, the Value14 built from v has two
\* halves of 0..127 and converts back into v.
C17_Value14RoundTrip ==
    /\ v14 # <<>> => v14[1] \in 0..127 /\ v14[2] \in 0..127
    /\ back # NoValue => back = val

\* 128 was split into the halves 1 and 0 and combined into 128 again.
C17_Witness ==
    val = 128 /\ v14 = <<1, 0>> /\ back = 128

\* The fields of a message or of a parser state are in the MIDI ranges: a
\* channel in 0..15, both halves of a 14-bit value in 0..127, every other
\* field in 0..127.
FieldInRange(r, f) ==
    IF f \in {"type", "tag"} THEN TRUE
    ELSE IF f = "channel" THEN r[f] \in 0..15
    ELSE IF f = "pointer" \/ (f = "value" /\ r.type = "PitchBendChange")
    THEN r[f][1] \in 0..127 /\ r[f][2] \in 0..127
    ELSE r[f] \in 0..127
FieldsInRange(r) == \A f \in DOMAIN r : FieldInRange(r, f)

\* C18: after any sequence of bytes, the message the parser returns has its
\* channel in 0..15, its 7-bit fields in 0..127 and both halves of its 14-bit
\* value in 0..127, and the parser state holds a channel of 0..15 and data
\* bytes of 0..127.
C18_FieldsInRange ==
    /\ out # None => FieldsInRange(out)
    /\ FieldsInRange(state)

\* A PitchBendChange on the top channel with both halves at the top value,
\* the parser awaiting the next one.
C18_Witness ==
    /\ out.type = "PitchBendChange" /\ out.channel = 15 /\ out.value = <<127, 127>>
    /\ state = PitchBendRecvd(15)

\* The code of a channel voice message type, the high nibble of its status byte.
TypeCode(t) ==
    CASE t = "NoteOff" -> \h8
      [] t = "NoteOn" -> \h9
      [] t = "KeyPressure" -> \hA
      [] t = "ControlChange" -> \hB
      [] t = "ProgramChange" -> \hC
      [] t = "ChannelPressure" -> \hD
      [] t = "PitchBendChange" -> \hE

\* C19: a Channel built from any raw byte holds at most 15, and a Note, Control,
\* Program or Value7 built from any raw byte holds at most 127; so the status
\* byte written for a channel voice message has the code of the message type
\* as its high nibble and the channel as its low nibble, and every data byte
\* written for it has bit 7 clear.
C19_RangeChecked ==
    /\ \A f \in DOMAIN msg :
          f # "pointer" /\ ~(f = "value" /\ msg.type = "PitchBendChange")
              => FieldInRange(msg, f)
    /\ ChannelWritten =>
          LET n == Len(DataOf(msg))
          IN  /\ Len(wire) > n => /\ Head(wire) \div 16 = TypeCode(msg.type)
                                  /\ Head(wire) % 16 = msg.channel
              /\ \A i \in 1..Len(wire) : i > Len(wire) - n => wire[i] < 128

\* C20: when the transport refuses one of the byte writes of a message, write
\* returns the error and makes no further byte write, so the bytes accepted are
\* the bytes a successful write of the message would have transmitted, up to
\* the refused one; when the transport refuses none, write returns Ok and all
\* those bytes are transmitted.
C20_ErrorPropagation ==
    msg # None =>
        LET full == write(prevLast, msg, MaxMessageBytes).wire
        IN  /\ res = "Err" <=> tx < Len(full)
            /\ res = "Ok" <=> tx >= Len(full)
            /\ wire = SubSeq(full, 1, Min(tx, Len(full)))

\* The transport accepted the status byte and the first data byte of a NoteOn
\* and refused the second data byte.
C20_Witness ==
    /\ msg.type = "NoteOn" /\ prevLast # <<StatusOf(msg)>> /\ tx = 2
    /\ res = "Err" /\ wire = <<StatusOf(msg), msg.note>>

Retried == attempt.msg.type # "None" /\ SameMessage(attempt.msg, msg)

\* C22: a write call of a channel voice message that returns an error leaves
\* the last status as it was before the call; so the write call that writes
\* the message again sends the status byte exactly when the status byte
\* differed from the last status before the failed call.
C22_FailedWriteKeepsStatus ==
    /\ msg.type \in ChannelTypes /\ res = "Err" => last_status = prevLast
    /\ Retried =>
          /\ prevLast = attempt.before
          /\ tx >= 1 => (Head(wire) = StatusOf(msg) <=> attempt.before # <<StatusOf(msg)>>)
          /\ res = "Ok" => wire = (IF attempt.before # <<StatusOf(msg)>>
                                   THEN <<StatusOf(msg)>> ELSE <<>>) \o DataOf(msg)

\* A NoteOn whose status byte the transport accepted and whose data bytes it
\* refused was written again, with its status byte.
C22_Witness ==
    /\ Retried /\ msg.type = "NoteOn" /\ attempt.before # <<StatusOf(msg)>>
    /\ res = "Ok" /\ wire = <<StatusOf(msg)>> \o DataOf(msg)

parsers == <<state, out, byte, sh, shOut, lag, oth>>
renderer == <<last_status, msg, res, wire, prevLast, tx>>

\* C26: in every interleaving of parse_byte calls and write calls, a step
\* that changes a parser leaves the renderer and a step that changes the
\* renderer leaves the parsers; what the second parser returns and holds is
\* what the first returned and held for the same bytes, whatever was written
\* between their calls; and what a write call transmits, returns and leaves as
\* last status is what its message, the last status before it and the answers
\* of the transport give.
C26_Independent ==
    [][/\ parsers' # parsers => renderer' = renderer
       /\ renderer' # renderer => parsers' = parsers
       /\ lag' = NoByte => sh' = state' /\ SameMessage(shOut', out')
       /\ msg'.type # "None"
             => LET w == write(prevLast', msg', tx')
                IN  last_status' = w.last_status /\ wire' = w.wire /\ res' = w.result]_vars

\* The renderer has written the status byte of a NoteOn and failed at its data
\* while the first parser holds the first data byte of a NoteOn that the
\* second parser has not received yet.
C26_Witness ==
    /\ msg.type = "NoteOn" /\ res = "Err" /\ wire = <<\h90>>
    /\ state.tag = "NoteOnNoteRecvd" /\ sh.tag = "NoteOnRecvd" /\ lag # NoByte

\* The message a new parser returns for the status byte s followed by as many
\* data bytes 0 as its message takes.
ParsedAfter(s) ==
    LET a == parse_byte(Idle, s)
        b == parse_byte(a.state, 0)
    IN  IF b.out # None THEN b.out ELSE parse_byte(b.state, 0).out

\* Every channel voice status byte is parsed as the type of its high nibble on
\* the channel of its low nibble.
ParserCodes ==
    \A s \in \h80..\hEF :
        LET m == ParsedAfter(s)
        IN  m.type \in ChannelTypes /\ TypeCode(m.type) = s \div 16 /\ m.channel = s % 16

\* The status byte written for a message on a channel 0..15 has the code of
\* the message type and the channel.
RendererCodesInRange ==
    msg.type \in ChannelTypes /\ tx >= 1 /\ prevLast # <<StatusOf(msg)>> /\ msg.channel <= 15
        => wire[1] \div 16 = TypeCode(msg.type) /\ wire[1] % 16 = msg.channel

\* C24: the parser returns for every channel voice status byte the message
\* type of its high nibble, 0x8 NoteOff to 0xE PitchBendChange, on the channel
\* of its low nibble, and the status byte the renderer writes for a channel
\* voice message has the code of the message type as its high nibble and the
\* channel of the message as its low nibble, so no two types share a status
\* byte.
C24_OwnCodeBothWays ==
    /\ ParserCodes
    /\ msg.type \in ChannelTypes /\ tx >= 1 /\ prevLast # <<StatusOf(msg)>>
          => wire[1] \div 16 = TypeCode(msg.type) /\ wire[1] % 16 = msg.channel

\* C25: a read call that gets a byte from the transport passes it to
\* parse_byte once and returns Ok with the message exactly when parse_byte
\* returned one, WouldBlock otherwise; a read call that gets WouldBlock or an
\* error from the transport returns it and leaves the parser state; so the
\* parser of MidiIn is in the state, and read returns the message, of a parser
\* fed the bytes the transport returned.
C25_ReadOneByte ==
    rxAns # NoByte =>
        /\ rxAns \in Bytes =>
              LET r == parse_byte(prev, rxAns)
              IN  /\ state = r.state
                  /\ readRes.result = "Ok" <=> r.out # None
                  /\ readRes.result = "WouldBlock" <=> r.out = None
                  /\ SameMessage(readRes.event, r.out)
        /\ rxAns = RxWouldBlock =>
              state = prev /\ readRes.result = "WouldBlock" /\ readRes.event = None
        /\ rxAns = RxErr =>
              state = prev /\ readRes.result = "Err" /\ readRes.event = None
        /\ state = sh
        /\ SameMessage(readRes.event, shOut)

\* A read call returned Ok with a NoteOn at the second data byte.
C25_Witness ==
    /\ rxAns \in DataBytes /\ prev.tag = "NoteOnNoteRecvd"
    /\ readRes.result = "Ok" /\ readRes.event.type = "NoteOn" /\ state = sh

\* C27: the parser returns a message only at the data byte that completes a
\* group (the first data byte for ProgramChange, ChannelPressure and
\* QuarterFrame, the second for NoteOff, NoteOn, KeyPressure, ControlChange,
\* PitchBendChange and SongPositionPointer), at 0xF6 or 0xF7, or at a realtime
\* byte other than 0xF9 and 0xFD; it returns nothing at a channel voice status
\* byte, at 0xF0..0xF5 and at the first data byte of a group of two; and the
\* message returned at a completed group is built from the data bytes of that
\* group alone, none of which the parser holds afterwards.
C27_EmissionPoints ==
    /\ out # None =>
          \/ /\ GroupDone
             /\ rs[1] \div 16 \in \h8..\hE \/ rs[1] \in {\hF1, \hF2}
             /\ SameMessage(out, ExpectedMessage(rs[1], pend))
          \/ byte \in {\hF6, \hF7}
          \/ byte \in RealtimeBytes \ {\hF9, \hFD}
    /\ byte \in ChannelStatusBytes \cup (\hF0..\hF5) => out = None
    /\ DataCall /\ Need = 2 /\ Len(pend) = 1 => out = None
    /\ GroupDone => ~HoldsData(state)

\* The second ProgramChange under one status byte, returned at the single data
\* byte of its group.
C27_Witness ==
    /\ GroupDone /\ Need = 1 /\ groups = 2
    /\ out.type = "ProgramChange" /\ out.program = byte

\* The variants of MidiParserState and of the messages parse_byte returns.
StateTags ==
    {"Idle", "NoteOnRecvd", "NoteOnNoteRecvd", "NoteOffRecvd", "NoteOffNoteRecvd",
     "KeyPressureRecvd", "KeyPressureNoteRecvd", "ControlChangeRecvd",
     "ControlChangeControlRecvd", "ProgramChangeRecvd", "ChannelPressureRecvd",
     "PitchBendRecvd", "PitchBendFirstByteRecvd", "QuarterFrameRecvd",
     "SongPositionRecvd", "SongPositionLsbRecvd"}
OutTypes ==
    ChannelTypes \cup CommonTypes \cup RealtimeTypes \cup {"EndOfExclusive", "None"}

\* The state awaiting the first data byte after the status byte s, and the
\* state holding the first data byte d of its group of two.
AwaitingFirst(s) ==
    CASE s \div 16 = \h8 -> NoteOffRecvd(s % 16)
      [] s \div 16 = \h9 -> NoteOnRecvd(s % 16)
      [] s \div 16 = \hA -> KeyPressureRecvd(s % 16)
      [] s \div 16 = \hB -> ControlChangeRecvd(s % 16)
      [] s \div 16 = \hC -> ProgramChangeRecvd(s % 16)
      [] s \div 16 = \hD -> ChannelPressureRecvd(s % 16)
      [] s \div 16 = \hE -> PitchBendRecvd(s % 16)
      [] s = \hF1 -> QuarterFrameRecvd
      [] s = \hF2 -> SongPositionRecvd
AwaitingSecond(s, d) ==
    CASE s \div 16 = \h8 -> NoteOffNoteRecvd(s % 16, d)
      [] s \div 16 = \h9 -> NoteOnNoteRecvd(s % 16, d)
      [] s \div 16 = \hA -> KeyPressureNoteRecvd(s % 16, d)
      [] s \div 16 = \hB -> ControlChangeControlRecvd(s % 16, d)
      [] s \div 16 = \hE -> PitchBendFirstByteRecvd(s % 16, d)
      [] s = \hF2 -> SongPositionLsbRecvd(d)

\* C28: in every state the parser reaches, parse_byte gives for each byte
\* 0..255 a state of MidiParserState and a message or nothing; the byte 0xF0
\* leads to Idle, each status byte 0x80..0xEF, 0xF1 and 0xF2 leads to the
\* state awaiting its first data byte, and a data byte after it to the state
\* awaiting the second of two: no state is stuck.
C28_TotalNoStuckState ==
    /\ \A b \in 0..255 :
          LET r == parse_byte(state, b)
          IN  r.state.tag \in StateTags /\ r.out.type \in OutTypes
    /\ parse_byte(state, \hF0).state = Idle
    /\ \A s \in (\h80..\hEF) \cup {\hF1, \hF2} :
          LET first == parse_byte(state, s).state
          IN  /\ first = AwaitingFirst(s)
              /\ DataLen(s) = 2 =>
                    \A d \in DataBytes : parse_byte(first, d).state = AwaitingSecond(s, d)

\* The parser holds the first data byte of a SongPositionPointer; 0xF1 leads
\* from there to QuarterFrameRecvd and 0xF0 to Idle.
C28_Witness ==
    /\ state.tag = "SongPositionLsbRecvd" /\ prev.tag = "SongPositionRecvd"
    /\ parse_byte(state, \hF1).state = QuarterFrameRecvd
    /\ parse_byte(state, \hF0).state = Idle

\* The parser has received the bytes of the last write call and returned
\* exactly the message written.
Delivered == Len(rcvd) = 1 /\ SameMessage(rcvd[1], msg)

\* With every field of every message written in range, each message of a
\* sequence written with every call returning Ok comes back as written.
StreamRoundTripInRange ==
    defects = {} /\ msg.type # "None" /\ link = <<>> => Delivered

\* C29: when every write call of a sequence of channel voice, realtime,
\* QuarterFrame, SongPositionPointer and TuneRequest messages returned Ok, the
\* parser fed the bytes returns each message written, once and as written, in
\* the order written.
C29_SequenceRoundTrip ==
    "failed" \notin defects /\ msg.type # "None" /\ link = <<>> => Delivered

\* C30: after any sequence of write calls, returning Ok or an error, a last
\* status of Some(s) is the last status byte below 0xF8 that the transport
\* accepted.
C30_LastStatusMirrorsWire ==
    last_status # <<>> => onWire = last_status

\* A write call that returns Ok keeps it: a last status of Some(s) that was
\* the last status byte below 0xF8 accepted before the call is so after it.
MirrorsWireAfterOk ==
    [][(res' = "Ok" /\ (last_status # <<>> => onWire = last_status))
          => (last_status' # <<>> => onWire' = last_status')]_vars

\* The last write call returned Ok and wrote again the channel voice message of
\* the failed write call before it, the only write call that has failed, with
\* every field of every message written in range; the parser has received the
\* bytes of both calls.
RetryDone == Retried /\ defects = {"failed"} /\ res = "Ok" /\ link = <<>>

\* When the failed call and the call that writes the message again both begin
\* with the status byte, the parser returns the message once and nothing else.
RetryWithStatusDecodable ==
    RetryDone /\ attempt.before # <<StatusOf(msg)>> => Delivered

\* C31: when a write call of a channel voice message fails after the transport
\* accepted some of its bytes and the next write call writes the message again
\* and returns Ok, the parser fed the bytes of both calls returns the message
\* once and returns no other message.
C31_RetryDecodable ==
    RetryDone => Delivered

\* C32 as claimed: whenever read returns WouldBlock, the transport returned no
\* byte and the parser state is as it was before the call.
C32_WouldBlockConsumesNothing ==
    readRes.result = "WouldBlock" => rxAns = RxWouldBlock /\ state = prev

\* C32: read returns WouldBlock in two cases and in no other: the transport
\* answered WouldBlock, and then the parser state is as it was; or the
\* transport returned a byte for which parse_byte returned no message, and then
\* the parser state is the one parse_byte left, the byte being consumed.
C32_WouldBlockTwoCases ==
    rxAns # NoByte =>
        LET r == parse_byte(prev, rxAns)
            noByte == rxAns = RxWouldBlock
            noMessage == rxAns \in Bytes /\ r.out = None
        IN  /\ readRes.result = "WouldBlock" <=> noByte \/ noMessage
            /\ noByte => state = prev
            /\ noMessage => state = r.state

\* read returned WouldBlock after it took the status byte of a NoteOn from the
\* transport: the parser has left Idle.
C32_Witness ==
    /\ readRes.result = "WouldBlock" /\ rxAns = \h90
    /\ prev = Idle /\ state = NoteOnRecvd(0)

====
